---- MODULE Spec2Model ----
(***************************************************************************)
(* The shopping-cart store of the storefront: the reducer cartReducer, the *)
(* CartProvider component that owns it, its load effect and save effect    *)
(* over localStorage, and the identity (currentUser) that scopes the       *)
(* persisted key.                                                          *)
(*                                                                         *)
(* React's useReducer keeps the state of the last render and a queue of    *)
(* dispatched actions that the next render folds through the reducer.      *)
(* `state` is the state of the last render (the one the effects close      *)
(* over), `queue` the dispatched actions, and `pending` the state the next *)
(* render will have: the queued actions applied to `state`.                *)
(***************************************************************************)
EXTENDS Integers, Sequences, FiniteSets, TLC

\* ------------------------------------------------------------------ bounds
\* addToCart is called with a quantity in 1..MaxQty
MaxQty == 3
\* a mutation is issued only while the cart's itemCount stays <= MaxCount
MaxCount == 5

\* at most MaxOrders orders are saved
MaxOrders == 1
\* on the checkout page the cart is filled up to an itemCount of MaxOrderItems
MaxOrderItems == 2
\* login() is called at most MaxLogins times
MaxLogins == 7
\* the clock advances at most MaxTicks times
MaxTicks == 3

\* ------------------------------------------------------- JavaScript values
\* The number NaN (parseInt of a non-numeric text, undefined * n).
NaN == -7777
\* JSON null (JSON.stringify writes NaN as null).
Null == -8888
\* The value undefined (a property the object does not have).
Undefined == -9999
\* a + b on JavaScript numbers; null converts to 0, undefined to NaN
JsAdd(a, b) ==
    IF a \in {NaN, Undefined} \/ b \in {NaN, Undefined} THEN NaN
    ELSE (IF a = Null THEN 0 ELSE a) + (IF b = Null THEN 0 ELSE b)
\* a * b on JavaScript numbers; null converts to 0, undefined to NaN
JsMul(a, b) ==
    IF a \in {NaN, Undefined} \/ b \in {NaN, Undefined} THEN NaN
    ELSE (IF a = Null THEN 0 ELSE a) * (IF b = Null THEN 0 ELSE b)
\* variant: the test written as quantity < 0
JsLtZero(a) == a \notin {NaN, Undefined, Null} /\ a < 0
\* a <= 0 on JavaScript numbers: false for NaN and undefined, true for null
JsLeqZero(a) == a \notin {NaN, Undefined} /\ (a = Null \/ a <= 0)
\* x || 0 : the falsy values (0, NaN, null, undefined) become 0
OrZero(x) == IF x \in {NaN, Null, Undefined} THEN 0 ELSE x

\* ------------------------------------------------------------ the products
ProductIds == {"sku1", "sku2"}
PriceOf(id) == IF id = "sku1" THEN 1000 ELSE 250
\* the product descriptors the screens pass to addToCart
Products == {[id |-> i, price |-> PriceOf(i)] : i \in ProductIds}

\* ----------------------------------------------------------- the identities
\* currentUser is null (no user signed in) or a signed-in user
NullUser == "null"
Users == {NullUser, "u1"}
\* currentUser?.uid || 'guest'
UserId(user) == IF user = NullUser THEN "guest" ELSE user
\* `cart_${userId}`
CartKey(user) == <<"cart_", UserId(user)>>
Keys == {CartKey(u) : u \in Users}

\* --------------------------------------------------------- the reducer state
NoError == "null"
LoadFailedMsg == "Failed to load cart"

initialState ==
    [items |-> <<>>, total |-> 0, itemCount |-> 0, loading |-> FALSE, error |-> NoError]

\* action types
ADD_TO_CART == "ADD_TO_CART"
REMOVE_FROM_CART == "REMOVE_FROM_CART"
UPDATE_QUANTITY == "UPDATE_QUANTITY"
CLEAR_CART == "CLEAR_CART"
SET_LOADING == "SET_LOADING"
SET_ERROR == "SET_ERROR"
LOAD_CART == "LOAD_CART"

\* items.reduce((sum, item) => sum + (item.price * item.quantity), 0)
RECURSIVE SumTotal(_)
SumTotal(items) ==
    IF items = <<>> THEN 0
    ELSE JsAdd(SumTotal(SubSeq(items, 1, Len(items) - 1)),
               JsMul(items[Len(items)].price, items[Len(items)].quantity))

\* items.reduce((sum, item) => sum + item.quantity, 0)
RECURSIVE SumCount(_)
SumCount(items) ==
    IF items = <<>> THEN 0
    ELSE JsAdd(SumCount(SubSeq(items, 1, Len(items) - 1)), items[Len(items)].quantity)

HasItem(items, id) == \E i \in 1..Len(items) : items[i].id = id

\* variant: the comparison never matches
FindIndexNever(items, id) == 0
\* state.items.findIndex(item => item.id === product.id), 0 when there is none
FindIndex(items, id) ==
    IF \E i \in 1..Len(items) : items[i].id = id
    THEN CHOOSE i \in 1..Len(items) :
            /\ items[i].id = id
            /\ \A j \in 1..(i - 1) : items[j].id # id
    ELSE 0

\* variant: an existing item's quantity is replaced, not increased
AddItemsReplace(items, product, quantity) ==
    LET existingItemIndex == FindIndex(items, product.id) IN
    IF existingItemIndex >= 1
    THEN [index \in 1..Len(items) |->
            IF index = existingItemIndex
            THEN [items[index] EXCEPT !.quantity = quantity]
            ELSE items[index]]
    ELSE Append(items, [id |-> product.id, price |-> product.price, quantity |-> quantity])
\* variant: a new line item is put in front of the others
AddItemsPrepend(items, product, quantity) ==
    LET existingItemIndex == FindIndex(items, product.id) IN
    IF existingItemIndex >= 1
    THEN [index \in 1..Len(items) |->
            IF index = existingItemIndex
            THEN [items[index] EXCEPT !.quantity = JsAdd(items[index].quantity, quantity)]
            ELSE items[index]]
    ELSE <<[id |-> product.id, price |-> product.price, quantity |-> quantity]>> \o items
\* ADD_TO_CART: the new item list
AddItems(items, product, quantity) ==
    LET existingItemIndex == FindIndex(items, product.id) IN
    IF existingItemIndex >= 1
    THEN [index \in 1..Len(items) |->
            IF index = existingItemIndex
            THEN [items[index] EXCEPT !.quantity = JsAdd(items[index].quantity, quantity)]
            ELSE items[index]]
    ELSE Append(items, [id |-> product.id, price |-> product.price, quantity |-> quantity])

\* REMOVE_FROM_CART: state.items.filter(item => item.id !== productId)
RemoveItems(items, productId) == SelectSeq(items, LAMBDA item : item.id # productId)

\* variant: a product that is not in the cart is added
UpdateItemsUpsert(items, productId, quantity) ==
    IF \E i \in 1..Len(items) : items[i].id = productId
    THEN [index \in 1..Len(items) |->
            IF items[index].id = productId
            THEN [items[index] EXCEPT !.quantity = quantity]
            ELSE items[index]]
    ELSE Append(items, [id |-> productId, price |-> PriceOf(productId), quantity |-> quantity])
\* variant: the quantity is added to the item's quantity
UpdateItemsAdd(items, productId, quantity) ==
    [index \in 1..Len(items) |->
        IF items[index].id = productId
        THEN [items[index] EXCEPT !.quantity = JsAdd(items[index].quantity, quantity)]
        ELSE items[index]]
\* UPDATE_QUANTITY with quantity > 0: the new item list
UpdateItems(items, productId, quantity) ==
    [index \in 1..Len(items) |->
        IF items[index].id = productId
        THEN [items[index] EXCEPT !.quantity = quantity]
        ELSE items[index]]

\* variant: the derived fields are computed from the old item list
WithItemsStale(state, newItems) ==
    [state EXCEPT !.items = newItems,
                  !.total = SumTotal(state.items),
                  !.itemCount = SumCount(state.items),
                  !.loading = FALSE,
                  !.error = NoError]
\* the state every mutation case returns for its new item list
WithItems(state, newItems) ==
    [state EXCEPT !.items = newItems,
                  !.total = SumTotal(newItems),
                  !.itemCount = SumCount(newItems),
                  !.loading = FALSE,
                  !.error = NoError]

\* case REMOVE_FROM_CART
ReduceRemove(state, productId) == WithItems(state, RemoveItems(state.items, productId))

\* variant: only a quantity of exactly 0 removes the item
ReduceUpdateZeroOnly(state, productId, quantity) ==
    IF quantity = 0
    THEN ReduceRemove(state, productId)
    ELSE WithItems(state, UpdateItems(state.items, productId, quantity))
\* case UPDATE_QUANTITY
ReduceUpdate(state, productId, quantity) ==
    IF JsLeqZero(quantity)
    THEN ReduceRemove(state, productId)
    ELSE WithItems(state, UpdateItems(state.items, productId, quantity))

\* variant: the error of an earlier failed load is kept
ReduceLoadKeepsError(state, payload) ==
    [state EXCEPT !.items = payload.items,
                  !.total = OrZero(payload.total),
                  !.itemCount = OrZero(payload.itemCount),
                  !.loading = FALSE]
\* case LOAD_CART: the payload is the parsed blob
ReduceLoad(state, payload) ==
    [state EXCEPT !.items = payload.items,
                  !.total = OrZero(payload.total),
                  !.itemCount = OrZero(payload.itemCount),
                  !.loading = FALSE,
                  !.error = NoError]

\* variant: the derived fields are not reset
ReduceClearItemsOnly(state) ==
    [state EXCEPT !.items = <<>>, !.loading = FALSE, !.error = NoError]
\* variant: loading and error are left as they were
ReduceClearKeepsFlags(state) ==
    [state EXCEPT !.items = <<>>, !.total = 0, !.itemCount = 0]
\* case CLEAR_CART
ReduceClear(state) ==
    [state EXCEPT !.items = <<>>, !.total = 0, !.itemCount = 0,
                  !.loading = FALSE, !.error = NoError]

\* an action of the reducer: every action carries the same fields
Action(type, id, price, quantity, payload) ==
    [type |-> type, id |-> id, price |-> price, quantity |-> quantity, payload |-> payload]

cartReducer(state, action) ==
    CASE action.type = LOAD_CART -> ReduceLoad(state, action.payload)
      [] action.type = ADD_TO_CART ->
            WithItems(state, AddItems(state.items,
                                      [id |-> action.id, price |-> action.price],
                                      action.quantity))
      [] action.type = REMOVE_FROM_CART -> ReduceRemove(state, action.id)
      [] action.type = UPDATE_QUANTITY -> ReduceUpdate(state, action.id, action.quantity)
      [] action.type = CLEAR_CART -> ReduceClear(state)
      [] action.type = SET_LOADING -> [state EXCEPT !.loading = action.payload]
      [] action.type = SET_ERROR -> [state EXCEPT !.error = action.payload, !.loading = FALSE]
      [] OTHER -> state

\* ------------------------------------------------------------ localStorage
\* A value of localStorage.getItem(key): no entry, a text JSON.parse rejects,
\* or the text of a cart, held as the value JSON.parse returns for it.
Absent == [kind |-> "absent", items |-> <<>>, total |-> 0, itemCount |-> 0]
Corrupt == [kind |-> "corrupt", items |-> <<>>, total |-> 0, itemCount |-> 0]
\* the load threw before it had a value (getItem itself failed)
ReadError == [kind |-> "readError", items |-> <<>>, total |-> 0, itemCount |-> 0]
\* no load has run since the last mutation
NoLoad == [kind |-> "none", items |-> <<>>, total |-> 0, itemCount |-> 0]

\* JSON.stringify of a number: NaN is written as null (a property whose value
\* is undefined is left out, and reads as undefined after JSON.parse)
JsonNum(x) == IF x = NaN THEN Null ELSE x

\* variant: itemCount is left out of the written object
StringifyNoCount(state) ==
    [kind |-> "cart",
     items |-> [i \in 1..Len(state.items) |->
                   [id |-> state.items[i].id,
                    price |-> JsonNum(state.items[i].price),
                    quantity |-> JsonNum(state.items[i].quantity)]],
     total |-> JsonNum(state.total),
     itemCount |-> Undefined]
\* JSON.stringify({items: state.items, total: state.total, itemCount: state.itemCount})
Stringify(state) ==
    [kind |-> "cart",
     items |-> [i \in 1..Len(state.items) |->
                   [id |-> state.items[i].id,
                    price |-> JsonNum(state.items[i].price),
                    quantity |-> JsonNum(state.items[i].quantity)]],
     total |-> JsonNum(state.total),
     itemCount |-> JsonNum(state.itemCount)]

\* ------------------------------------------------------------------- state
VARIABLES
    currentUser,   \* useAuth().currentUser
    renderedUser,  \* currentUser of the last committed render ("unmounted" before the first)
    state,         \* the reducer state of the last committed render
    queue,         \* the actions dispatched since that render, in dispatch order
    storage,       \* localStorage, by key
    storageMode,   \* how the browser's localStorage answers: see StorageModes
    lastOp,        \* history: the last operation called on the store
    lastLoad,      \* history: what the load effect read, since the last operation
    otherTab,      \* the CartProvider of a second tab of the same browser
    checkout,      \* CheckoutForm: the order being saved, and the orders saved
    auth,          \* AuthProvider and the identity provider's session
    loginAttempts, \* security.js: loginAttempts, by email
    now            \* Date.now()

\* what surrounds the cart store of this tab
env == <<otherTab, checkout, auth, loginAttempts, now>>

vars == <<currentUser, renderedUser, state, queue, storage, storageMode, lastOp, lastLoad,
          otherTab, checkout, auth, loginAttempts, now>>

Unmounted == "unmounted"
NoPayload == FALSE

\* "ok": getItem and setItem work; "full": setItem throws (quota exceeded);
\* "denied": getItem and setItem both throw (storage access is blocked)
StorageModes == {"ok", "full", "denied"}

\* the operations recorded in lastOp that are not reducer actions
MOUNT == "MOUNT"
SWITCH == "SWITCH"
\* a history record: the operation, its arguments, whether the product was in
\* the cart when it was called (for clearCart: whether the cart had items) and
\* whether error was set when it was called
Op(type, id, quantity, found, hadError) ==
    [type |-> type, id |-> id, quantity |-> quantity, found |-> found, hadError |-> hadError]

\* what localStorage holds before the application first runs
InitialStorages == [Keys -> {Absent, Corrupt}]

\* a tab in which CartProvider has not rendered yet
NewTab == [state |-> initialState, queue |-> <<>>, renderedUser |-> Unmounted]

\* no order is being saved
NoOrder == [userId |-> "", items |-> <<>>, total |-> 0]

\* the e-mail addresses typed into the login form
Emails == {"a@shop.test", "b@shop.test"}
\* loginAttempts[email] is undefined
NoAttempts == [attempts |-> 0, firstAttempt |-> 0, lastAttempt |-> 0]

\* secureStorage has no 'user_session'
NoSession == -1
\* login() has not been called
NoLogin == [email |-> "", result |-> "none"]

\* AuthProvider's useState values (twoFactorPending, tempUserCredential), the
\* identity provider's signed-in user (providerUser), the user the
\* onAuthStateChanged listener was last called with (notified), where login()
\* stands (pc: "idle", or "signedIn" while it awaits the user document), the
\* lastActivity of the stored user_session, the account's twoFactorEnabled
\* field, and the history of the logins: whether the last sign-in has run to
\* its end (login() returned the user, or verifyTwoFactorCode succeeded), how
\* many times login() was called, the last call and its result, and for each
\* e-mail the times of the calls that reached the identity provider since the
\* last successful sign-in
AuthInit ==
    [providerUser |-> NullUser, notified |-> NullUser, pc |-> "idle",
     twoFactorPending |-> FALSE, tempUserCredential |-> NullUser,
     session |-> NoSession, twoFactorEnabled |-> FALSE, loginComplete |-> FALSE,
     logins |-> 0, lastLogin |-> NoLogin,
     providerCalls |-> [email \in Emails |-> <<>>]]

EnvInit ==
    /\ otherTab = NewTab
    /\ checkout = [inFlight |-> NoOrder, saved |-> <<>>]
    /\ auth = AuthInit
    /\ loginAttempts = [email \in Emails |-> NoAttempts]
    /\ now = 0

Init ==
    /\ currentUser \in Users
    /\ renderedUser = Unmounted
    /\ state = initialState
    /\ queue = <<>>
    /\ storage \in InitialStorages
    /\ storageMode \in StorageModes
    /\ lastOp = Op(MOUNT, "", 0, FALSE, FALSE)
    /\ lastLoad = NoLoad
    /\ EnvInit

\* ------------------------------------------------------------- the render
\* variant: every queued action is applied to the state of the last render
\* (the handler's stale snapshot), and the last result wins
ReduceStale(s, actions) ==
    IF actions = <<>> THEN s ELSE cartReducer(s, actions[Len(actions)])
\* useReducer: the state of the next render is the queued actions applied, in
\* dispatch order, to the state of the last render
RECURSIVE Reduce(_, _)
Reduce(s, actions) ==
    IF actions = <<>> THEN s
    ELSE Reduce(cartReducer(s, Head(actions)), Tail(actions))

\* the state the next render will have
pending == Reduce(state, queue)

\* the reducer cases that build a new items array
AllocatesItems(type) ==
    type \in {LOAD_CART, ADD_TO_CART, REMOVE_FROM_CART, UPDATE_QUANTITY, CLEAR_CART}

\* variant: the uid is not found on the user and the guest key is read
getItemGuest(user) ==
    IF storageMode = "denied" THEN ReadError ELSE storage[CartKey(NullUser)]
\* localStorage.getItem(`cart_${userId}`) in loadCart
getItem(user) ==
    IF storageMode = "denied" THEN ReadError ELSE storage[CartKey(user)]

\* variant: nothing is dispatched for a missing entry but the end of loading
loadCartNoClear(savedCart) ==
    <<Action(SET_LOADING, "", 0, 0, TRUE),
      IF savedCart.kind = "cart" THEN Action(LOAD_CART, "", 0, 0, savedCart)
      ELSE IF savedCart.kind = "absent" THEN Action(SET_LOADING, "", 0, 0, FALSE)
      ELSE Action(SET_ERROR, "", 0, 0, LoadFailedMsg)>>
\* variant: the catch dispatches nothing, so a failed load never ends loading
loadCartNeverEnds(savedCart) ==
    IF savedCart.kind = "cart"
    THEN <<Action(SET_LOADING, "", 0, 0, TRUE), Action(LOAD_CART, "", 0, 0, savedCart)>>
    ELSE IF savedCart.kind = "absent"
    THEN <<Action(SET_LOADING, "", 0, 0, TRUE), Action(CLEAR_CART, "", 0, 0, NoPayload)>>
    ELSE <<Action(SET_LOADING, "", 0, 0, TRUE)>>
\* loadCart: the actions the load effect dispatches for what getItem gave
loadCart(savedCart) ==
    <<Action(SET_LOADING, "", 0, 0, TRUE),
      IF savedCart.kind = "cart" THEN Action(LOAD_CART, "", 0, 0, savedCart)
      ELSE IF savedCart.kind = "absent" THEN Action(CLEAR_CART, "", 0, 0, NoPayload)
      ELSE Action(SET_ERROR, "", 0, 0, LoadFailedMsg)>>

\* the key the save effect writes
SaveKey(user) == CartKey(user)

\* variant: an empty cart is not written
saveCartNonEmpty(s, user) ==
    IF ~s.loading /\ storageMode = "ok" /\ s.items # <<>>
    THEN [storage EXCEPT ![SaveKey(user)] = Stringify(s)]
    ELSE storage
\* variant: the stored items that the state does not have are kept in the blob
saveCartMerge(s, user) ==
    IF ~s.loading /\ storageMode = "ok"
    THEN LET stored == storage[SaveKey(user)].items
             kept == SelectSeq(stored, LAMBDA item : ~HasItem(s.items, item.id))
             merged == [s EXCEPT !.items = s.items \o kept]
         IN [storage EXCEPT ![SaveKey(user)] =
                Stringify([merged EXCEPT !.total = SumTotal(merged.items),
                                         !.itemCount = SumCount(merged.items)])]
    ELSE storage
\* the save effect of a render with state s: localStorage after it
saveCart(s, user) ==
    IF ~s.loading /\ storageMode = "ok"
    THEN [storage EXCEPT ![SaveKey(user)] = Stringify(s)]
    ELSE storage

\* The save effect's dependencies [items, total, itemCount, loading,
\* currentUser] differ from those of the last render: s is the state of this
\* render and actions are the actions it applied.
SaveDepsChanged(s, user, actions) ==
    \/ renderedUser # user
    \/ \E i \in 1..Len(actions) : AllocatesItems(actions[i].type)
    \/ s.total # state.total
    \/ s.itemCount # state.itemCount
    \/ s.loading # state.loading

\* variant: the render keeps the previous state when the write cannot succeed
CommitRollback(user, actions, s) ==
    LET runLoad == renderedUser # user
        savedCart == getItem(user)
        write == SaveDepsChanged(s, user, actions)
    IN /\ state' = IF write /\ ~s.loading /\ storageMode # "ok" THEN state ELSE s
       /\ renderedUser' = user
       /\ queue' = IF runLoad THEN loadCart(savedCart) ELSE <<>>
       /\ storage' = IF write THEN saveCart(s, user) ELSE storage
\* CartProvider renders for `user` with the state s that the queued `actions`
\* lead to, commits, and its effects run: the load effect when currentUser
\* changed (and on mount), then the save effect when its dependencies changed.
Commit(user, actions, s) ==
    LET runLoad == renderedUser # user
        savedCart == getItem(user)
    IN /\ state' = s
       /\ renderedUser' = user
       /\ queue' = IF runLoad THEN loadCart(savedCart) ELSE <<>>
       /\ storage' = IF SaveDepsChanged(s, user, actions)
                     THEN saveCart(s, user) ELSE storage

\* --------------------------------------------------------- the operations
\* an event handler calls one of the four operations of the context value:
\* the action is dispatched and React renders before the next event
dispatch(action) ==
    /\ renderedUser # Unmounted
    /\ LET before == pending
           s == cartReducer(before, action)
       IN /\ s.itemCount <= MaxCount
          /\ Commit(currentUser, Append(queue, action), s)
          /\ lastOp' = Op(action.type, action.id, action.quantity,
                          IF action.type = CLEAR_CART THEN before.items # <<>>
                          ELSE \E i \in 1..Len(before.items) : before.items[i].id = action.id,
                          before.error # NoError)
    /\ lastLoad' = NoLoad
    /\ UNCHANGED <<currentUser, storageMode>>

\* addToCart = (product, quantity = 1): the default stands in for an argument
\* that is not passed
addToCart(product, quantity) ==
    /\ dispatch(Action(ADD_TO_CART, product.id, product.price,
                    IF quantity = Undefined THEN 1 ELSE quantity, NoPayload))
    /\ UNCHANGED env

removeFromCart(productId) ==
    /\ dispatch(Action(REMOVE_FROM_CART, productId, 0, 0, NoPayload))
    /\ UNCHANGED env

updateQuantity(productId, quantity) ==
    /\ dispatch(Action(UPDATE_QUANTITY, productId, 0, quantity, NoPayload))
    /\ UNCHANGED env

clearCart ==
    /\ dispatch(Action(CLEAR_CART, "", 0, 0, NoPayload))
    /\ UNCHANGED env

\* the quantities the model passes to updateQuantity
UpdateQtys == {-5, 0, 1, MaxQty + 1}

\* CartProvider's first commit after it was created: both effects run
Mount ==
    /\ renderedUser = Unmounted
    /\ Commit(currentUser, <<>>, state)
    /\ lastLoad' = getItem(currentUser)
    /\ UNCHANGED <<currentUser, storageMode, lastOp>>
    /\ UNCHANGED env

\* AuthProvider's setCurrentUser(user) with a user other than the current one:
\* CartProvider renders with the new currentUser
setCurrentUser(user) ==
    /\ renderedUser # Unmounted
    /\ user # currentUser
    /\ currentUser' = user
    /\ Commit(user, queue, pending)
    /\ lastLoad' = getItem(user)
    /\ lastOp' = Op(SWITCH, "", 0, FALSE, pending.error # NoError)
    /\ UNCHANGED storageMode

\* the auth state changes (a user signs in, or signs out)
SwitchIdentity(user) ==
    /\ setCurrentUser(user)
    /\ UNCHANGED env

\* the render React schedules for the actions an effect dispatched
Render ==
    /\ renderedUser # Unmounted
    /\ queue # <<>>
    /\ Commit(currentUser, queue, pending)
    /\ UNCHANGED <<currentUser, storageMode, lastOp, lastLoad>>
    /\ UNCHANGED env

\* the page is reloaded: CartProvider is destroyed and created again
Remount ==
    /\ renderedUser # Unmounted
    /\ renderedUser' = Unmounted
    /\ state' = initialState
    /\ queue' = <<>>
    /\ lastOp' = Op(MOUNT, "", 0, FALSE, FALSE)
    /\ lastLoad' = NoLoad
    /\ UNCHANGED <<currentUser, storage, storageMode>>
    /\ UNCHANGED env

Next ==
    \/ \E product \in Products, quantity \in 1..MaxQty : addToCart(product, quantity)
    \/ \E productId \in ProductIds : removeFromCart(productId)
    \/ \E productId \in ProductIds, quantity \in UpdateQtys : updateQuantity(productId, quantity)
    \/ clearCart
    \/ Mount
    \/ \E user \in Users : SwitchIdentity(user)
    \/ Render
    \/ Remount

Spec == Init /\ [][Next]_vars

\* ------------------------------------------------------------- two tabs
TAB == "TAB"
\* The user turns to the other tab of the browser, which runs its own
\* CartProvider over the same localStorage and the same signed-in user: the
\* operations that follow act on that tab's store.
SwitchTab ==
    /\ state' = otherTab.state
    /\ queue' = otherTab.queue
    /\ renderedUser' = otherTab.renderedUser
    /\ otherTab' = [state |-> state, queue |-> queue, renderedUser |-> renderedUser]
    /\ lastOp' = Op(TAB, "", 0, FALSE, FALSE)
    /\ lastLoad' = NoLoad
    /\ UNCHANGED <<currentUser, storage, storageMode, checkout, auth, loginAttempts, now>>

\* both tabs are opened in a browser whose localStorage works and is empty
InitTabs ==
    /\ Init
    /\ storageMode = "ok"
    /\ storage = [k \in Keys |-> Absent]

NextTabs ==
    \/ \E product \in Products : addToCart(product, 1)
    \/ \E productId \in ProductIds : removeFromCart(productId)
    \/ Mount
    \/ Render
    \/ SwitchTab

SpecTabs == InitTabs /\ [][NextTabs]_vars

\* ---------------------------------------------------------- the checkout
\* orderData of handleSubmit: the items and total of the render it was called in
OrderData(s, user) == [userId |-> UserId(user), items |-> s.items, total |-> s.total]

\* CheckoutForm.handleSubmit with a valid form, up to `await addOrder(orderData)`
handleSubmit ==
    /\ renderedUser # Unmounted
    /\ checkout.inFlight = NoOrder
    /\ checkout' = [checkout EXCEPT !.inFlight = OrderData(state, currentUser)]
    /\ UNCHANGED <<currentUser, renderedUser, state, queue, storage, storageMode,
                   lastOp, lastLoad, otherTab, auth, loginAttempts, now>>

\* variant: the cart is cleared although the order was not saved
addOrderRejectsClears ==
    /\ checkout.inFlight # NoOrder
    /\ checkout' = [checkout EXCEPT !.inFlight = NoOrder]
    /\ dispatch(Action(CLEAR_CART, "", 0, 0, NoPayload))
    /\ UNCHANGED <<otherTab, auth, loginAttempts, now>>
\* addOrder throws: handleSubmit's catch sets the form's error message only
addOrderRejects ==
    /\ checkout.inFlight # NoOrder
    /\ checkout' = [checkout EXCEPT !.inFlight = NoOrder]
    /\ UNCHANGED <<currentUser, renderedUser, state, queue, storage, storageMode,
                   lastOp, lastLoad, otherTab, auth, loginAttempts, now>>

\* addOrder resolves: the order is in the orders collection and handleSubmit
\* goes on with clearCart()
addOrderResolves ==
    /\ checkout.inFlight # NoOrder
    /\ Len(checkout.saved) < MaxOrders
    /\ checkout' = [inFlight |-> NoOrder, saved |-> Append(checkout.saved, checkout.inFlight)]
    /\ dispatch(Action(CLEAR_CART, "", 0, 0, NoPayload))
    /\ UNCHANGED <<otherTab, auth, loginAttempts, now>>

\* a browser with nothing stored, whose setItem works or throws
InitCheckout ==
    /\ Init
    /\ storageMode \in {"ok", "full"}
    /\ storage = [k \in Keys |-> Absent]

NextCheckout ==
    \/ \E product \in Products :
          /\ pending.itemCount < MaxOrderItems
          /\ addToCart(product, 1)
    \/ Mount
    \/ Render
    \/ handleSubmit
    \/ addOrderResolves
    \/ addOrderRejects

SpecCheckout == InitCheckout /\ [][NextCheckout]_vars

\* ------------------------------------------------------------- signing in
\* const windowMs = 15 * 60 * 1000
windowMs == 15 * 60 * 1000
maxAttempts == 5
\* const sessionTimeout = 30 * 60 * 1000
sessionTimeout == 30 * 60 * 1000
\* the clock is read once per window length
TickMs == windowMs

\* the one account of the identity provider
AccountEmail == "a@shop.test"
AccountUser == "u1"
Passwords == {"right", "wrong"}

FirstAttempt == [attempts |-> 1, firstAttempt |-> now, lastAttempt |-> now]

\* variant: the attempts of a window are not counted
checkLoginRateLimitNoCount(email) ==
    LET userAttempts == loginAttempts[email] IN
    IF userAttempts = NoAttempts
    THEN [allowed |-> TRUE, loginAttempts |-> [loginAttempts EXCEPT ![email] = FirstAttempt]]
    ELSE IF now - userAttempts.firstAttempt > windowMs
    THEN [allowed |-> TRUE, loginAttempts |-> [loginAttempts EXCEPT ![email] = FirstAttempt]]
    ELSE [allowed |-> userAttempts.attempts <= maxAttempts,
          loginAttempts |-> [loginAttempts EXCEPT ![email].lastAttempt = now]]
\* checkLoginRateLimit(email), for a non-empty email: whether the call is
\* allowed, and loginAttempts after it
checkLoginRateLimit(email) ==
    LET userAttempts == loginAttempts[email] IN
    IF userAttempts = NoAttempts
    THEN [allowed |-> TRUE, loginAttempts |-> [loginAttempts EXCEPT ![email] = FirstAttempt]]
    ELSE IF now - userAttempts.firstAttempt > windowMs
    THEN [allowed |-> TRUE, loginAttempts |-> [loginAttempts EXCEPT ![email] = FirstAttempt]]
    ELSE [allowed |-> userAttempts.attempts + 1 <= maxAttempts,
          loginAttempts |-> [loginAttempts EXCEPT ![email].attempts = @ + 1,
                                                  ![email].lastAttempt = now]]

\* resetLoginAttempts(email) on the table `attempts`
resetLoginAttempts(attempts, email) == [attempts EXCEPT ![email] = NoAttempts]

CartUnchanged ==
    UNCHANGED <<currentUser, renderedUser, state, queue, storage, storageMode, lastOp, lastLoad>>

\* login(email, password), up to the end of `await signInWithEmailAndPassword`
login(email, password) ==
    LET rateLimit == checkLoginRateLimit(email)
        called == [auth EXCEPT !.logins = @ + 1] IN
    /\ auth.pc = "idle"
    /\ auth.logins < MaxLogins
    /\ IF ~rateLimit.allowed
       THEN /\ loginAttempts' = rateLimit.loginAttempts
            /\ auth' = [called EXCEPT !.lastLogin = [email |-> email, result |-> "rate-limited"]]
       ELSE IF email = AccountEmail /\ password = "right"
       THEN /\ loginAttempts' = resetLoginAttempts(rateLimit.loginAttempts, email)
            /\ auth' = [called EXCEPT !.lastLogin = [email |-> email, result |-> "signed-in"],
                                      !.providerCalls[email] = <<>>,
                                      !.providerUser = AccountUser,
                                      !.pc = "signedIn",
                                      !.loginComplete = FALSE]
       ELSE /\ loginAttempts' = rateLimit.loginAttempts
            /\ auth' = [called EXCEPT !.lastLogin = [email |-> email, result |-> "wrong-password"],
                                      !.providerCalls[email] = Append(@, now)]
    /\ CartUnchanged
    /\ UNCHANGED <<otherTab, checkout, now>>

\* login() after the sign-in: the user document is read; with twoFactorEnabled
\* the credential is kept and a code is sent, otherwise the session is stored
loginGetDoc ==
    /\ auth.pc = "signedIn"
    /\ auth' = IF auth.twoFactorEnabled
               THEN [auth EXCEPT !.pc = "idle", !.tempUserCredential = AccountUser,
                                 !.twoFactorPending = TRUE]
               ELSE [auth EXCEPT !.pc = "idle", !.session = now, !.loginComplete = TRUE]
    /\ CartUnchanged
    /\ UNCHANGED <<otherTab, checkout, loginAttempts, now>>

\* checkSessionTimeout(): a stored session older than sessionTimeout
SessionTimedOut == auth.session # NoSession /\ now - auth.session > sessionTimeout

\* the onAuthStateChanged listener (the account is 'active')
AuthStateChanged ==
    LET user == auth.providerUser
        expired == user # NullUser /\ SessionTimedOut
        shown == IF expired THEN NullUser ELSE user IN
    /\ auth.providerUser # auth.notified
    /\ auth' = IF expired
               THEN [auth EXCEPT !.notified = user, !.providerUser = NullUser,
                                 !.session = NoSession]
               ELSE IF user # NullUser /\ auth.session # NoSession
               THEN [auth EXCEPT !.notified = user, !.session = now]
               ELSE [auth EXCEPT !.notified = user]
    /\ IF shown = currentUser
       THEN CartUnchanged
       ELSE IF renderedUser = Unmounted
       THEN /\ currentUser' = shown
            /\ UNCHANGED <<renderedUser, state, queue, storage, storageMode, lastOp, lastLoad>>
       ELSE setCurrentUser(shown)
    /\ UNCHANGED <<otherTab, checkout, loginAttempts, now>>

\* verifyTwoFactorCode(code); the backend answers verified or not
verifyTwoFactorCode(verified) ==
    /\ auth.twoFactorPending
    /\ auth.tempUserCredential # NullUser
    /\ auth' = IF verified
               THEN [auth EXCEPT !.session = now, !.twoFactorPending = FALSE,
                                 !.tempUserCredential = NullUser, !.loginComplete = TRUE]
               ELSE auth
    /\ CartUnchanged
    /\ UNCHANGED <<otherTab, checkout, loginAttempts, now>>

\* enableTwoFactorAuth(), called by the signed-in user
enableTwoFactorAuth ==
    /\ currentUser # NullUser
    /\ auth.pc = "idle"
    /\ auth.loginComplete
    /\ ~auth.twoFactorEnabled
    /\ auth' = [auth EXCEPT !.twoFactorEnabled = TRUE]
    /\ CartUnchanged
    /\ UNCHANGED <<otherTab, checkout, loginAttempts, now>>

\* logout()
logout ==
    /\ auth.providerUser # NullUser
    /\ auth.pc = "idle"
    /\ auth' = [auth EXCEPT !.providerUser = NullUser, !.session = NoSession]
    /\ CartUnchanged
    /\ UNCHANGED <<otherTab, checkout, loginAttempts, now>>

\* time passes
Tick ==
    /\ now < MaxTicks * TickMs
    /\ now' = now + TickMs
    /\ CartUnchanged
    /\ UNCHANGED <<otherTab, checkout, auth, loginAttempts>>

\* nobody is signed in and nothing is stored
InitAuth ==
    /\ Init
    /\ currentUser = NullUser
    /\ storageMode = "ok"
    /\ storage = [k \in Keys |-> Absent]

NextAuth ==
    \/ \E email \in Emails, password \in Passwords : login(email, password)
    \/ loginGetDoc
    \/ AuthStateChanged
    \/ \E verified \in BOOLEAN : verifyTwoFactorCode(verified)
    \/ enableTwoFactorAuth
    \/ logout
    \/ Mount
    \/ Render

SpecAuth == InitAuth /\ [][NextAuth]_vars

\* the login form alone, over time
NextLogin ==
    \/ \E email \in Emails, password \in Passwords : login(email, password)
    \/ loginGetDoc
    \/ logout
    \/ Tick

SpecLogin == InitAuth /\ [][NextLogin]_vars

\* ------------------------------------------------- the product-details screen
\* handleAddToCart with `selected` in the screen's quantity field: the
\* quantity travels inside the product descriptor and addToCart is called
\* with one argument
handleAddToCart(productId, selected) ==
    /\ currentUser # NullUser
    /\ addToCart([id |-> productId, price |-> PriceOf(productId), quantity |-> selected],
                 Undefined)

NextDetails ==
    \/ \E productId \in ProductIds, selected \in 1..MaxQty : handleAddToCart(productId, selected)
    \/ \E productId \in ProductIds : removeFromCart(productId)
    \/ Mount
    \/ \E user \in Users : SwitchIdentity(user)
    \/ Render
    \/ Remount

SpecDetails == Init /\ [][NextDetails]_vars

\* ---------------------------------------------- the cart screen's quantity field
\* the characters typed into the field
FieldChars == {"0", "2", "x"}
\* the texts of the field (e.target.value): "" when the field is cleared
FieldTexts == UNION {[1..n -> FieldChars] : n \in 0..2}
IsDigit(c) == c \in {"0", "2"}
DigitValue(c) == IF c = "2" THEN 2 ELSE 0
\* the number of leading digits of text
RECURSIVE DigitPrefix(_)
DigitPrefix(text) ==
    IF text = <<>> \/ ~IsDigit(Head(text)) THEN 0 ELSE 1 + DigitPrefix(Tail(text))
\* the value of the first n characters of text read as decimal digits
RECURSIVE DecimalValue(_, _)
DecimalValue(text, n) ==
    IF n = 0 THEN 0 ELSE 10 * DecimalValue(text, n - 1) + DigitValue(text[n])
\* parseInt(text): the leading digits as a number, NaN when there are none
ParseInt(text) ==
    IF DigitPrefix(text) = 0 THEN NaN ELSE DecimalValue(text, DigitPrefix(text))

\* handleQuantityChange of the quantity field of a line item that is shown
handleQuantityChange(productId, newQuantity) ==
    /\ HasItem(state.items, productId)
    /\ updateQuantity(productId, ParseInt(newQuantity))

NextField ==
    \/ \E product \in Products :
          /\ \A i \in 1..Len(pending.items) : pending.items[i].quantity < MaxQty
          /\ addToCart(product, 1)
    \/ \E productId \in ProductIds, text \in FieldTexts : handleQuantityChange(productId, text)
    \/ Mount
    \/ Render
    \/ Remount

SpecField == Init /\ [][NextField]_vars

\* ------------------------------------------------------- loads, with fairness
\* the store with the mutations that give the loads something to find
NextLoad ==
    \/ addToCart([id |-> "sku1", price |-> PriceOf("sku1")], 1)
    \/ clearCart
    \/ Mount
    \/ \E user \in Users : SwitchIdentity(user)
    \/ Render
    \/ Remount

\* React performs the render it has scheduled for dispatched actions
SpecLoad == Init /\ [][NextLoad]_vars /\ WF_vars(Render)

\* ------------------------------------------------- reloading under one identity
RELOAD == "RELOAD"
\* The page is reloaded (see Remount); the history keeps the cart that was in
\* memory, and whether it was the settled result of a mutation whose write
\* succeeded.
Reload ==
    /\ renderedUser # Unmounted
    /\ renderedUser' = Unmounted
    /\ state' = initialState
    /\ queue' = <<>>
    /\ lastOp' = [type |-> RELOAD, id |-> "", quantity |-> 0, found |-> FALSE,
                   hadError |-> state.error # NoError,
                   clean |-> /\ lastOp.type \in {ADD_TO_CART, REMOVE_FROM_CART,
                                                  UPDATE_QUANTITY, CLEAR_CART}
                             /\ queue = <<>>
                             /\ storageMode = "ok",
                   before |-> [items |-> state.items, total |-> state.total,
                               itemCount |-> state.itemCount]]
    /\ lastLoad' = NoLoad
    /\ UNCHANGED <<currentUser, storage, storageMode>>
    /\ UNCHANGED env

\* the store used under one identity, with reloads
NextReload ==
    \/ \E product \in Products, quantity \in 1..MaxQty : addToCart(product, quantity)
    \/ \E productId \in ProductIds : removeFromCart(productId)
    \/ \E productId \in ProductIds, quantity \in UpdateQtys : updateQuantity(productId, quantity)
    \/ clearCart
    \/ Mount
    \/ Render
    \/ Reload

SpecReload == Init /\ [][NextReload]_vars

\* ------------------------------------------ two operations in one handler
BATCH == "BATCH"
\* the mutations a handler issues back to back
BatchActions ==
    {Action(ADD_TO_CART, i, PriceOf(i), q, NoPayload) : i \in ProductIds, q \in {1, MaxQty - 1}}
    \cup {Action(REMOVE_FROM_CART, i, 0, 0, NoPayload) : i \in ProductIds}
    \cup {Action(UPDATE_QUANTITY, i, 0, MaxQty + 1, NoPayload) : i \in ProductIds}
    \cup {Action(CLEAR_CART, "", 0, 0, NoPayload)}

\* an event handler calls two operations one after the other: both actions
\* are dispatched before React renders, and the render folds the whole queue
Batch(a1, a2) ==
    /\ renderedUser # Unmounted
    /\ LET actions == queue \o <<a1, a2>>
           s == Reduce(state, actions)
       IN /\ Reduce(state, Append(queue, a1)).itemCount <= MaxCount
          /\ s.itemCount <= MaxCount
          /\ Commit(currentUser, actions, s)
          /\ lastOp' = [type |-> BATCH, id |-> a2.id, quantity |-> a2.quantity,
                         found |-> FALSE, hadError |-> pending.error # NoError,
                         first |-> a1, second |-> a2]
    /\ lastLoad' = NoLoad
    /\ UNCHANGED <<currentUser, storageMode>>
    /\ UNCHANGED env

NextBatch ==
    \/ \E a1 \in BatchActions, a2 \in BatchActions : Batch(a1, a2)
    \/ Mount
    \/ Render
    \/ Remount

\* the first run of the application in a browser: no entry is stored yet
InitBatch == Init /\ storage = [k \in Keys |-> Absent]

SpecBatch == InitBatch /\ [][NextBatch]_vars

\* --------------------------------------------- products with a field missing
\* product.id of a descriptor that has no id
UndefinedId == "undefined"
\* descriptors as a product document with a missing field gives them: one
\* without price, one without id
MalformedProducts ==
    {[id |-> "sku1", price |-> Undefined], [id |-> UndefinedId, price |-> 1000]}

\* the store with callers that also pass such descriptors
NextLoose ==
    \/ \E product \in Products, quantity \in 1..MaxQty : addToCart(product, quantity)
    \/ \E product \in MalformedProducts : addToCart(product, 1)
    \/ \E productId \in ProductIds \cup {UndefinedId} : removeFromCart(productId)
    \/ Mount
    \/ Render
    \/ Remount

SpecLoose == Init /\ [][NextLoose]_vars

\* ------------------------------------------- entries this store did not write
\* A cart text under a cart_ key that JSON.parse accepts but that the save
\* effect did not produce (an older build, another script of the origin, the
\* browser's developer tools): its total and itemCount disagree with its items.
ForeignBlob ==
    [kind |-> "cart",
     items |-> <<[id |-> "sku1", price |-> 1000, quantity |-> 2]>>,
     total |-> 500,
     itemCount |-> 3]

StoredStorages == [Keys -> {Absent, Corrupt, ForeignBlob}]

InitStored ==
    /\ currentUser \in Users
    /\ renderedUser = Unmounted
    /\ state = initialState
    /\ queue = <<>>
    /\ storage \in StoredStorages
    /\ storageMode \in StorageModes
    /\ lastOp = Op(MOUNT, "", 0, FALSE, FALSE)
    /\ lastLoad = NoLoad
    /\ EnvInit

SpecStored == InitStored /\ [][Next]_vars

\* ================================================================ properties
MutationTypes == {ADD_TO_CART, REMOVE_FROM_CART, UPDATE_QUANTITY, CLEAR_CART}

\* no action is waiting for a render
Settled == renderedUser = currentUser /\ queue = <<>>

\* the sum over items of price * quantity, item by item from the first
RECURSIVE CartTotal(_)
CartTotal(items) ==
    IF items = <<>> THEN 0
    ELSE Head(items).price * Head(items).quantity + CartTotal(Tail(items))

\* the sum over items of quantity, item by item from the first
RECURSIVE CartCount(_)
CartCount(items) ==
    IF items = <<>> THEN 0 ELSE Head(items).quantity + CartCount(Tail(items))


\* C1: after every addToCart, removeFromCart and updateQuantity call, total is
\* the sum over items of price * quantity and itemCount the sum of quantity.
C1_DerivedFieldsAfterMutation ==
    lastOp.type \in {ADD_TO_CART, REMOVE_FROM_CART, UPDATE_QUANTITY} =>
        /\ state.total = CartTotal(state.items)
        /\ state.itemCount = CartCount(state.items)

C1_Witness ==
    /\ lastOp.type = UPDATE_QUANTITY
    /\ lastOp.found
    /\ Len(state.items) = 2
    /\ state.total = 2250
    /\ state.itemCount = 3

\* C2: once a switch of identity has settled, the cart is empty when the new
\* identity had no persisted cart, and it is exactly the persisted items, total
\* and itemCount when the new identity had one.
C2_SwitchAdoptsPersistedCart ==
    (lastOp.type = SWITCH /\ Settled) =>
        /\ lastLoad.kind = "absent" =>
              state.items = <<>> /\ state.total = 0 /\ state.itemCount = 0
        /\ lastLoad.kind = "cart" =>
              /\ state.items = lastLoad.items
              /\ state.total = lastLoad.total
              /\ state.itemCount = lastLoad.itemCount

\* back at an identity with a persisted two-item cart, after a visit to the
\* other identity, which had no persisted cart and was left with an empty one
C2_Witness ==
    /\ lastOp.type = SWITCH
    /\ Settled
    /\ lastLoad.kind = "cart"
    /\ Len(state.items) = 2
    /\ \E other \in Users \ {currentUser} :
          storage[CartKey(other)] = Stringify(initialState)

\* C3 (as the specification states it): a load that fails ends with error set,
\* loading false and an empty cart, whatever the cart was before.
C3_FailedLoadEmptiesCart ==
    (Settled /\ lastLoad.kind \in {"corrupt", "readError"}) =>
        /\ state.error # NoError
        /\ ~state.loading
        /\ state.items = <<>>
        /\ state.total = 0
        /\ state.itemCount = 0

\* C4: after a mutation under identity K whose write succeeded, the blob under
\* cart_K is {items, total, itemCount} of the in-memory state.
C4_BlobEqualsStateAfterMutation ==
    (lastOp.type \in MutationTypes /\ Settled /\ storageMode = "ok") =>
        storage[CartKey(currentUser)] = Stringify(state)

C4_Witness ==
    /\ lastOp.type = CLEAR_CART
    /\ lastOp.found
    /\ Settled
    /\ storageMode = "ok"
    /\ storage[CartKey(currentUser)].kind = "cart"
    /\ storage[CartKey(currentUser)].items = <<>>

\* C5: every line item has a quantity of at least 1, in the rendered state and
\* in the state the queued actions lead to.
C5_QuantitiesPositive ==
    LET next == pending IN
    /\ \A i \in 1..Len(state.items) : state.items[i].quantity >= 1
    /\ \A i \in 1..Len(next.items) : next.items[i].quantity >= 1

\* updateQuantity with a quantity <= 0 was called on a product in the cart
C5_Witness ==
    /\ lastOp.type = UPDATE_QUANTITY
    /\ lastOp.quantity <= 0
    /\ lastOp.found
    /\ Len(state.items) = 1

\* C6: no two line items share an id.
C6_UniqueIds ==
    /\ \A i, j \in 1..Len(state.items) :
          state.items[i].id = state.items[j].id => i = j
    /\ LET next == pending IN
       \A i, j \in 1..Len(next.items) : next.items[i].id = next.items[j].id => i = j

\* addToCart was called for a product that was already in a two-item cart
C6_Witness ==
    /\ lastOp.type = ADD_TO_CART
    /\ lastOp.found
    /\ Len(state.items) = 2

\* C7: for every reachable cart state, addToCart(P, q) on a cart that holds P
\* with quantity k keeps the number of line items and the other items, and
\* sets P's quantity to k + q.
C7_AddAccumulates ==
    LET before == pending IN
    \A product \in Products, quantity \in 1..MaxQty :
        HasItem(before.items, product.id) =>
            LET added == cartReducer(before, Action(ADD_TO_CART, product.id, product.price,
                                                    quantity, NoPayload))
            IN /\ Len(added.items) = Len(before.items)
               /\ \A i \in 1..Len(before.items) :
                     /\ added.items[i].id = before.items[i].id
                     /\ added.items[i].quantity =
                           IF before.items[i].id = product.id
                           THEN before.items[i].quantity + quantity
                           ELSE before.items[i].quantity

\* addToCart(P, 3) was called on a cart that held P: one line item, quantity 5
C7_Witness ==
    /\ lastOp.type = ADD_TO_CART
    /\ lastOp.quantity = 3
    /\ lastOp.found
    /\ Len(state.items) = 1
    /\ state.items[1].quantity = 5

\* C8: for every reachable cart state and every product id, updateQuantity(id, q)
\* with q <= 0 gives the state removeFromCart(id) gives, with no item for id.
C8_NonPositiveUpdateIsRemove ==
    LET before == pending IN
    \A productId \in ProductIds, quantity \in {q \in UpdateQtys : q <= 0} :
        LET updated == cartReducer(before, Action(UPDATE_QUANTITY, productId, 0, quantity, NoPayload))
            removed == cartReducer(before, Action(REMOVE_FROM_CART, productId, 0, 0, NoPayload))
        IN /\ updated = removed
           /\ ~HasItem(updated.items, productId)
           /\ \A i \in 1..Len(updated.items) : updated.items[i].quantity >= 1

\* updateQuantity(id, -5) was called on a product in a two-item cart
C8_Witness ==
    /\ lastOp.type = UPDATE_QUANTITY
    /\ lastOp.quantity = -5
    /\ lastOp.found
    /\ Len(state.items) = 1
    /\ ~HasItem(state.items, lastOp.id)

\* the result of removeFromCart(id) on state s
AfterRemove(s, productId) ==
    cartReducer(s, Action(REMOVE_FROM_CART, productId, 0, 0, NoPayload))

\* the result of updateQuantity(id, q) on state s
AfterUpdate(s, productId, quantity) ==
    cartReducer(s, Action(UPDATE_QUANTITY, productId, 0, quantity, NoPayload))

C10_ClearEmptiesAndIsIdempotent ==
    [][clearCart =>
          /\ state'.items = <<>>
          /\ state'.total = 0
          /\ state'.itemCount = 0
          /\ cartReducer(state', Action(CLEAR_CART, "", 0, 0, NoPayload)) = state'
          /\ pending' = state'
    ]_vars

\* clearCart was called on a cart that had items
C10_Witness ==
    /\ lastOp.type = CLEAR_CART
    /\ lastOp.found
    /\ state.items = <<>>
    /\ state.total = 0
    /\ state.itemCount = 0

\* the result of clearCart() on state s
AfterClear(s) == cartReducer(s, Action(CLEAR_CART, "", 0, 0, NoPayload))

\* C11 (as the specification states it): clearCart() leaves loading and error
\* exactly as they were, whatever the state it is called in.
C11_ClearKeepsLoadingAndError ==
    LET before == pending IN
    /\ AfterClear(before).loading = before.loading
    /\ AfterClear(before).error = before.error

\* C11 (amended): clearCart() sets loading to false and error to null, whatever
\* they were; an error set by a failed load is cleared.
C11_ClearResetsLoadingAndError ==
    LET before == pending IN
    /\ AfterClear(before).loading = FALSE
    /\ AfterClear(before).error = NoError
    /\ lastOp.type = CLEAR_CART /\ Settled => state.error = NoError /\ ~state.loading

\* clearCart was called in the state a failed load left: error is null after it
C11_Witness ==
    /\ lastOp.type = CLEAR_CART
    /\ lastOp.hadError
    /\ state.error = NoError
    /\ state.loading = FALSE

\* C12: when the write that a mutation triggers fails (setItem throws), the
\* store's error field is set (non-null) afterwards.
C12_FailedWriteSetsError ==
    (/\ lastOp.type \in MutationTypes
     /\ storageMode # "ok"
     /\ Settled) => state.error # NoError

\* the reducer action of the mutation that a history record describes
ActionOf(op) ==
    Action(op.type, op.id, IF op.type = ADD_TO_CART THEN PriceOf(op.id) ELSE 0,
           op.quantity, NoPayload)

\* C13: while setItem throws, a mutation still completes: the state of the
\* render after it is the mutation's result (items, total and itemCount are
\* not rolled back), nothing is written, and nothing is left scheduled that
\* would write again (the failed write is not retried).
C13_FailedWriteKeepsMutation ==
    [][storageMode # "ok" =>
          /\ storage' = storage
          /\ lastOp'.type \in MutationTypes =>
                /\ state' = cartReducer(pending, ActionOf(lastOp'))
                /\ state'.total = CartTotal(state'.items)
                /\ state'.itemCount = CartCount(state'.items)
                /\ queue' = <<>>
    ]_vars

\* two products were added while setItem throws: the cart holds them and the
\* entry of the current identity was never written
C13_Witness ==
    /\ lastOp.type = ADD_TO_CART
    /\ storageMode = "full"
    /\ Len(state.items) = 2
    /\ state.error = NoError
    /\ storage[CartKey(currentUser)].kind = "absent"

\* C14: when the load finds a text that parses, the cart of the next render
\* has exactly the items, total and itemCount of the parsed blob, loading is
\* false and error is null (also when an earlier load had set error).
C14_LoadAdoptsBlob ==
    lastLoad.kind = "cart" =>
        /\ pending.items = lastLoad.items
        /\ pending.total = lastLoad.total
        /\ pending.itemCount = lastLoad.itemCount
        /\ pending.loading = FALSE
        /\ pending.error = NoError
        /\ queue = <<>> => state = pending

\* the identity changed while error was set, the load found the entry that
\* this store did not write, and the render after it has adopted it
C14_Witness ==
    /\ lastOp.type = SWITCH
    /\ lastOp.hadError
    /\ lastLoad = ForeignBlob
    /\ Settled
    /\ state.items = ForeignBlob.items
    /\ state.total = 500
    /\ state.itemCount = 3
    /\ state.error = NoError

\* the key cart_K of the identity K that is current after a step
CurrentKey == <<"cart_", IF currentUser = NullUser THEN "guest" ELSE currentUser>>

\* C15: every write changes only the entry under cart_K, K the identity that
\* is current when the effect runs ("guest" when no user is signed in), and
\* every load (on mount and on a change of identity) reads that entry.
C15_OnlyCurrentKey ==
    [][/\ \A k \in Keys : storage'[k] # storage[k] => k = CurrentKey'
       /\ (renderedUser' # renderedUser /\ renderedUser' # Unmounted) =>
             lastLoad' = IF storageMode = "denied" THEN ReadError ELSE storage[CurrentKey']
      ]_vars

\* the user signed out: the load read the guest entry, the render after it
\* wrote the guest entry, and the entry of the user is a different one
C15_Witness ==
    /\ lastOp.type = SWITCH
    /\ currentUser = NullUser
    /\ Settled
    /\ lastLoad.kind = "cart"
    /\ storage[<<"cart_", "guest">>] = lastLoad
    /\ storage[<<"cart_", "u1">>].kind = "cart"
    /\ storage[<<"cart_", "u1">>] # lastLoad

\* C16: addToCart with a product that lacks id or price is rejected: items,
\* total and itemCount stay as they were and no such line item is admitted.
C16_MalformedProductRejected ==
    [][\A product \in MalformedProducts :
          addToCart(product, 1) =>
              /\ state'.items = pending.items
              /\ state'.total = pending.total
              /\ state'.itemCount = pending.itemCount
      ]_vars

\* the quantity of the line of product id in items, 0 when there is none
QtyOf(items, id) ==
    LET lines == {i \in 1..Len(items) : items[i].id = id} IN
    IF lines = {} THEN 0 ELSE items[CHOOSE i \in lines : TRUE].quantity

\* C17: two mutations issued back to back, before any render or write: the
\* second is applied to the result of the first, the cart of the next render
\* reflects both (two addToCart calls raise each product's quantity by both
\* amounts), and so does the blob the save effect writes.
C17_BackToBackBothApplied ==
    [][lastOp'.type = BATCH =>
          LET a1 == lastOp'.first
              a2 == lastOp'.second
              before == pending
          IN /\ state' = cartReducer(cartReducer(before, a1), a2)
             /\ (a1.type = ADD_TO_CART /\ a2.type = ADD_TO_CART) =>
                   \A id \in ProductIds :
                       QtyOf(state'.items, id) =
                           QtyOf(before.items, id)
                           + (IF a1.id = id THEN a1.quantity ELSE 0)
                           + (IF a2.id = id THEN a2.quantity ELSE 0)
             /\ state'.total = CartTotal(state'.items)
             /\ state'.itemCount = CartCount(state'.items)
             /\ storageMode = "ok" =>
                   /\ storage'[CurrentKey'].kind = "cart"
                   /\ storage'[CurrentKey'].items = state'.items
                   /\ storage'[CurrentKey'].total = state'.total
                   /\ storage'[CurrentKey'].itemCount = state'.itemCount
    ]_vars

\* addToCart(sku1, 1) and addToCart(sku1, 2) were called back to back on an
\* empty cart: the cart and the written blob hold sku1 three times
C17_Witness ==
    /\ lastOp.type = BATCH
    /\ lastOp.first = Action(ADD_TO_CART, "sku1", 1000, 1, NoPayload)
    /\ lastOp.second = Action(ADD_TO_CART, "sku1", 1000, 2, NoPayload)
    /\ state.items = <<[id |-> "sku1", price |-> 1000, quantity |-> 3]>>
    /\ state.total = 3000
    /\ storageMode = "ok"
    /\ storage[CurrentKey].items = state.items
    /\ storage[CurrentKey].total = 3000

\* C18: a cart that mutations produced and whose write succeeded survives a
\* reload under the same identity: while the store is destroyed the entry
\* under cart_K holds it, and once the reload has settled the store has the
\* same items in the same order, the same total and itemCount, and the entry
\* under cart_K is the same again.
C18_ReloadRoundTrip ==
    (lastOp.type = RELOAD /\ lastOp.clean /\ queue = <<>>) =>
        /\ storage[CurrentKey].kind = "cart"
        /\ storage[CurrentKey].items = lastOp.before.items
        /\ storage[CurrentKey].total = lastOp.before.total
        /\ storage[CurrentKey].itemCount = lastOp.before.itemCount
        /\ renderedUser # Unmounted =>
              /\ state.items = lastOp.before.items
              /\ state.total = lastOp.before.total
              /\ state.itemCount = lastOp.before.itemCount

\* a cart of two products was reloaded and the reload has settled
C18_Witness ==
    /\ lastOp.type = RELOAD
    /\ lastOp.clean
    /\ Settled
    /\ lastLoad.kind = "cart"
    /\ Len(lastOp.before.items) = 2
    /\ state.items = lastOp.before.items
    /\ storage[CurrentKey].items = state.items

\* C19: updateQuantity(id, q) with q > 0 and id in the cart sets that item's
\* quantity to exactly q, leaves every other item and the order as they were,
\* and recomputes total and itemCount; on [sku1 at 1000, quantity 1],
\* updateQuantity(sku1, 4) gives total 4000 and itemCount 4.
C19_UpdateSetsQuantity ==
    LET before == pending IN
    /\ \A productId \in ProductIds, quantity \in {q \in UpdateQtys : q > 0} :
          HasItem(before.items, productId) =>
              LET after == AfterUpdate(before, productId, quantity) IN
              /\ Len(after.items) = Len(before.items)
              /\ \A i \in 1..Len(before.items) :
                    /\ after.items[i].id = before.items[i].id
                    /\ after.items[i].price = before.items[i].price
                    /\ after.items[i].quantity =
                          IF before.items[i].id = productId THEN quantity
                          ELSE before.items[i].quantity
              /\ after.total = CartTotal(after.items)
              /\ after.itemCount = CartCount(after.items)
    /\ before.items = <<[id |-> "sku1", price |-> 1000, quantity |-> 1]>> =>
          /\ AfterUpdate(before, "sku1", 4).total = 4000
          /\ AfterUpdate(before, "sku1", 4).itemCount = 4
    /\ (lastOp.type = UPDATE_QUANTITY /\ lastOp.quantity > 0 /\ lastOp.found) =>
          QtyOf(state.items, lastOp.id) = lastOp.quantity

\* updateQuantity(sku1, 4) was called on a cart that held sku1
C19_Witness ==
    /\ lastOp.type = UPDATE_QUANTITY
    /\ lastOp.id = "sku1"
    /\ lastOp.quantity = 4
    /\ lastOp.found
    /\ state.items = <<[id |-> "sku1", price |-> 1000, quantity |-> 4]>>
    /\ state.total = 4000
    /\ state.itemCount = 4

\* C20: in every state, also right after a load has adopted a stored blob,
\* total is the sum of price * quantity over items and itemCount the sum of
\* the quantities, whatever total and itemCount the parsed blob carried.
C20_DerivedFieldsAlways ==
    /\ state.total = CartTotal(state.items)
    /\ state.itemCount = CartCount(state.items)

\* the state the reducer is in when a load has started: the load effect's
\* first action applied to the state of the render the effect belongs to
LoadingState == cartReducer(state, Head(queue))

\* C21: when a load starts (on mount or on a change of identity) the store
\* enters a state with loading = true in which the error left by a previous
\* load has been cleared (error = null).
C21_LoadingClearsError ==
    queue # <<>> =>
        /\ LoadingState.loading = TRUE
        /\ LoadingState.error = NoError

\* what the load that read `read` must leave in a state s that has ended it
LoadOutcome(s, read) ==
    /\ s.loading = FALSE
    /\ read.kind \in {"cart", "absent"} => s.error = NoError
    /\ read.kind \in {"corrupt", "readError"} => s.error = LoadFailedMsg

\* C22: every load that starts ends with loading = false, in Loaded (error
\* null: the entry was found, or there was none) or LoadFailed (error set: the
\* read or the parse failed); the render that ends it always happens; and a
\* load starts only at a mount or a change of identity, never as a retry.
C22_LoadEnds ==
    /\ [](queue # <<>> => LoadOutcome(pending, lastLoad))
    /\ [](~state.loading)
    /\ (queue # <<>>) ~> (queue = <<>> /\ LoadOutcome(state, lastLoad))
    /\ [][queue' # <<>> => renderedUser' # renderedUser]_vars

\* a load that could not parse the entry has ended: loading is false, error is
\* set, and nothing is scheduled
C22_Witness ==
    /\ lastOp.type = SWITCH
    /\ lastLoad.kind = "corrupt"
    /\ Settled
    /\ state.loading = FALSE
    /\ state.error = LoadFailedMsg

\* items without the lines of product id, the others in their order
RECURSIVE Without(_, _)
Without(items, id) ==
    IF items = <<>> THEN <<>>
    ELSE IF Head(items).id = id THEN Without(Tail(items), id)
    ELSE <<Head(items)>> \o Without(Tail(items), id)

\* the result of addToCart(product, quantity) on state s
AfterAdd(s, product, quantity) ==
    cartReducer(s, Action(ADD_TO_CART, product.id, product.price, quantity, NoPayload))

\* C23: addToCart of a product that is not in the cart appends its line item
\* at the end and leaves the existing items and their order unchanged;
\* addToCart of a product that is in the cart keeps every item at its place,
\* and removeFromCart keeps the remaining items in their order.
C23_OrderPreserved ==
    LET before == pending IN
    /\ \A product \in Products, quantity \in 1..MaxQty :
          LET added == AfterAdd(before, product, quantity) IN
          IF HasItem(before.items, product.id)
          THEN /\ Len(added.items) = Len(before.items)
               /\ \A i \in 1..Len(before.items) :
                     /\ added.items[i].id = before.items[i].id
                     /\ before.items[i].id # product.id => added.items[i] = before.items[i]
          ELSE added.items =
                  before.items \o <<[id |-> product.id, price |-> product.price,
                                     quantity |-> quantity]>>
    /\ \A productId \in ProductIds :
          AfterRemove(before, productId).items = Without(before.items, productId)
    /\ (lastOp.type = ADD_TO_CART /\ ~lastOp.found /\ Settled) =>
          state.items[Len(state.items)].id = lastOp.id

\* a product that was not in the cart was added to a cart that held another
\* one: it is the second line item
C23_Witness ==
    /\ lastOp.type = ADD_TO_CART
    /\ ~lastOp.found
    /\ Len(state.items) = 2
    /\ state.items[2].id = lastOp.id
    /\ state.items[1].id # lastOp.id

\* C25: the entry under cart_K only ever holds a cart that was loaded or
\* produced while K was the current identity. Stated for the time from a
\* change of identity to K until the first mutation under K: the entry under
\* cart_K is what the load found there, or the empty cart the load adopted.
C25_NoCartUnderAnotherKey ==
    (lastOp.type = SWITCH /\ storageMode = "ok") =>
        \/ storage[CurrentKey] = lastLoad
        \/ storage[CurrentKey] = Stringify(initialState)

\* C26: adding from the product-details screen with N selected raises the
\* product's quantity in the cart by N (a new line item has quantity N).
C26_DetailsAddsSelectedQuantity ==
    [][\A productId \in ProductIds, selected \in 1..MaxQty :
          handleAddToCart(productId, selected) =>
              QtyOf(state'.items, productId) = QtyOf(pending.items, productId) + selected
      ]_vars

\* C27: edits through the cart screen's quantity field never leave a line
\* item whose quantity is not a positive integer, and never make total or
\* itemCount a non-number.
C27_FieldKeepsNumbers ==
    /\ \A i \in 1..Len(state.items) : state.items[i].quantity \in 1..(MaxCount + 99)
    /\ state.total \notin {NaN, Null, Undefined}
    /\ state.itemCount \notin {NaN, Null, Undefined}

\* C24: with two tabs on one identity, every write puts exactly the writing
\* tab's items, total and itemCount under the key, so the stored blob is
\* always the cart of one of the two tabs as it stands (the one that wrote
\* last) and never a merge of both.
C24_LastWriterWins ==
    /\ [](storage[CurrentKey].kind = "cart" =>
             \/ storage[CurrentKey] = Stringify(state)
             \/ storage[CurrentKey] = Stringify(otherTab.state))
    /\ [][storage'[CurrentKey] # storage[CurrentKey] =>
             storage'[CurrentKey] = Stringify(state')]_vars

\* one tab added sku1, then the other tab, which had loaded the empty cart,
\* added sku2: the stored blob holds sku2 only
C24_Witness ==
    /\ lastOp.type = ADD_TO_CART
    /\ otherTab.state.items = <<[id |-> "sku1", price |-> 1000, quantity |-> 1]>>
    /\ state.items = <<[id |-> "sku2", price |-> 250, quantity |-> 1]>>
    /\ storage[CurrentKey].items = state.items
    /\ storage[CurrentKey].total = 250

\* C28: the order handed to addOrder carries the items and total the cart has
\* when the form is submitted; when the order is saved the cart is cleared
\* (items = [], total = 0, itemCount = 0, and the empty cart is written under
\* the current identity's key) and the saved order is the one submitted; when
\* saving fails the cart, in memory and stored, is left as it is.
C28_CheckoutClearsOnSuccessOnly ==
    [][/\ (checkout.inFlight = NoOrder /\ checkout'.inFlight # NoOrder) =>
             /\ checkout'.inFlight.items = state.items
             /\ checkout'.inFlight.total = state.total
             /\ UNCHANGED <<state, queue, storage>>
       /\ Len(checkout'.saved) > Len(checkout.saved) =>
             /\ checkout'.saved[Len(checkout'.saved)] = checkout.inFlight
             /\ state'.items = <<>>
             /\ state'.total = 0
             /\ state'.itemCount = 0
             /\ storageMode = "ok" => storage'[CurrentKey] = Stringify(initialState)
       /\ (checkout.inFlight # NoOrder /\ checkout'.inFlight = NoOrder
             /\ Len(checkout'.saved) = Len(checkout.saved)) =>
             UNCHANGED <<state, queue, storage>>
      ]_vars

\* an order for two sku1 was saved: the cart is empty, in memory and stored
C28_Witness ==
    /\ Len(checkout.saved) = 1
    /\ checkout.saved[1].items = <<[id |-> "sku1", price |-> 1000, quantity |-> 2]>>
    /\ checkout.saved[1].total = 2000
    /\ lastOp.type = CLEAR_CART
    /\ state.items = <<>>
    /\ state.total = 0
    /\ storageMode = "ok"
    /\ storage[CurrentKey] = Stringify(initialState)

\* C29 (as claimed): when the account has twoFactorEnabled, the application
\* comes to see a signed-in user (currentUser turns non-null, PrivateRoute
\* renders its children) only once the sign-in has run to its end, that is
\* once verifyTwoFactorCode has succeeded for it.
C29_NoUserBeforeSecondFactor ==
    [][(currentUser = NullUser /\ currentUser' # NullUser /\ auth'.twoFactorEnabled)
          => auth'.loginComplete]_vars

\* the calls for `email` that reached the identity provider in the window that
\* starts at its first counted attempt
CallsInWindow(email) ==
    LET calls == auth.providerCalls[email]
        first == loginAttempts[email].firstAttempt IN
    {i \in 1..Len(calls) : calls[i] >= first /\ calls[i] <= first + windowMs}

\* C30: for every e-mail, at most maxAttempts calls since the last successful
\* sign-in have reached the identity provider in the window that starts at the
\* first counted attempt; a call made in the window after maxAttempts counted
\* ones is rejected with the rate-limit error and reaches no provider, a call
\* made before that is let through, and so is a call made after the window
\* has elapsed.
C30_RateLimit ==
    /\ [](\A email \in Emails : Cardinality(CallsInWindow(email)) <= maxAttempts)
    /\ [][auth'.logins # auth.logins =>
            LET email == auth'.lastLogin.email
                counted == loginAttempts[email]
                inWindow == counted # NoAttempts /\ now - counted.firstAttempt <= windowMs IN
            IF inWindow /\ counted.attempts >= maxAttempts
            THEN /\ auth'.lastLogin.result = "rate-limited"
                 /\ auth'.providerCalls = auth.providerCalls
                 /\ auth'.providerUser = auth.providerUser
            ELSE /\ auth'.lastLogin.result # "rate-limited"
                 /\ \/ auth'.providerCalls[email] = Append(auth.providerCalls[email], now)
                    \/ /\ auth'.lastLogin.result = "signed-in"
                       /\ loginAttempts'[email] = NoAttempts
         ]_vars

\* seven calls for one e-mail: five wrong passwords reached the provider, the
\* sixth was rejected in the window, and the seventh, made after the window
\* had elapsed, reached the provider again
C30_Witness ==
    /\ auth.logins = 7
    /\ Len(auth.providerCalls[AccountEmail]) = 6
    /\ auth.providerCalls[AccountEmail][5] <= windowMs
    /\ auth.providerCalls[AccountEmail][6] > windowMs
    /\ loginAttempts[AccountEmail].attempts = 1
    /\ auth.lastLogin = [email |-> AccountEmail, result |-> "wrong-password"]

====
